---- MODULE Spec2Model ----
(***************************************************************************)
(* A state-machine model of impeller::RenderPass                           *)
(* (impeller/renderer/render_pass.cc): the recording of draw commands      *)
(* against one render target.  State is the object's fields; there is one  *)
(* action per public operation.  Each action also records the call it made *)
(* (operation, argument, return value, backend hooks invoked) so that      *)
(* properties about return values can be stated.                           *)
(***************************************************************************)
EXTENDS Integers, Naturals, Sequences, FiniteSets, TLC

VARIABLES
  IMPELLER_DEBUG,          \* build configuration: is IMPELLER_DEBUG defined
  render_target_,          \* copy of the RenderTarget given to the constructor
  sample_count_,
  pixel_format_,
  has_depth_attachment_,
  has_stencil_attachment_,
  render_target_size_,
  orthographic_,
  commands_,               \* std::vector<Command>: the finalized sequence
  pending_,                \* Command: the command under construction
  last_call,               \* the most recent call: [op, arg, ret, hooks]
  calls                    \* number of calls made so far (bounds the run)

vars == << calls, IMPELLER_DEBUG, render_target_, sample_count_,
           pixel_format_, has_depth_attachment_, has_stencil_attachment_,
           render_target_size_, orthographic_, commands_, pending_,
           last_call >>

frozen == << IMPELLER_DEBUG, render_target_, sample_count_, pixel_format_,
             has_depth_attachment_, has_stencil_attachment_,
             render_target_size_, orthographic_ >>

-----------------------------------------------------------------------------
(* Bounds of the model *)

\* Longest run explored, in calls on the RenderPass.
MaxCalls == 3

-----------------------------------------------------------------------------
(* Values *)

\* Maximum number of vertex buffers of a Command.
kMaxVertexBuffers == 16

NullPipeline == "nullptr"
Pipelines == {NullPipeline, "pipeline"}

\* BufferView: a default-constructed view references no buffer.
EmptyView == "empty"
BufferViews == {EmptyView, "buf1", "buf2"}

\* BufferView::operator bool
BufferViewValid(view) == view # EmptyView

IndexTypes == {"kUnknown", "k16bit", "k32bit", "kNone"}

\* std::optional<T>: the empty sequence is std::nullopt, <<v>> holds v.
NullOpt == << >>
Some(v) == << v >>
HasValue(opt) == opt # << >>
Value(opt) == opt[1]

\* ISize / IRect
MakeISize(w, h) == [width |-> w, height |-> h]
MakeXYWH(x, y, w, h) == [x |-> x, y |-> y, w |-> w, h |-> h]

\* IRect::MakeSize
MakeSize(size) == MakeXYWH(0, 0, size.width, size.height)

\* IRect::Contains(IRect): the other rectangle lies fully inside this one.
Contains(rect, other) ==
  /\ rect.x <= other.x
  /\ rect.y <= other.y
  /\ other.x + other.w <= rect.x + rect.w
  /\ other.y + other.h <= rect.y + rect.h

\* Matrix::MakeOrthographic(size): the scale (2/w, -2/h) and the translation
\* (-1, 1), kept as exact fractions.
MakeOrthographic(size) ==
  [scale_x |-> <<2, size.width>>, scale_y |-> <<-2, size.height>>,
   translate_x |-> -1, translate_y |-> 1]

\* The render targets a pass is constructed against.
RenderTargets ==
  { [size |-> MakeISize(800, 600), sample_count |-> "kCount1",
     pixel_format |-> "kR8G8B8A8UNormInt",
     depth |-> FALSE, stencil |-> FALSE],
    [size |-> MakeISize(64, 32), sample_count |-> "kCount4",
     pixel_format |-> "kB8G8R8A8UNormInt",
     depth |-> TRUE, stencil |-> TRUE] }

\* Command{}: a default-constructed Command.
DefaultCommand ==
  [ pipeline            |-> NullPipeline,
    bindings            |-> {},
    label               |-> "",
    stencil_reference   |-> 0,
    base_vertex         |-> 0,
    viewport            |-> NullOpt,
    scissor             |-> NullOpt,
    instance_count      |-> 1,
    vertex_buffers      |-> [i \in 0..(kMaxVertexBuffers - 1) |-> EmptyView],
    vertex_buffer_count |-> 0,
    index_buffer        |-> EmptyView,
    index_type          |-> "kNone",
    element_count       |-> 0 ]

\* The index-buffer rule of a Command: kUnknown is never coherent, kNone needs
\* no buffer, a 16-bit or 32-bit type needs a valid buffer.
IndexStateCoherent(command) ==
  /\ command.index_type # "kUnknown"
  /\ command.index_type # "kNone" => BufferViewValid(command.index_buffer)

\* Command::IsValid
IsValid(command) ==
  /\ command.pipeline # NullPipeline
  /\ IndexStateCoherent(command)
  /\ command.vertex_buffer_count <= kMaxVertexBuffers

-----------------------------------------------------------------------------
(* Inputs the callers pass *)

ElementCounts == {0, 3}
InstanceCounts == {0, 1}
StencilReferences == {7}
BaseVertices == {5}
CommandLabels == {"draw"}
PassLabels == {"", "pass"}
Viewports == { [rect |-> MakeXYWH(0, 0, 64, 32), znear |-> 0, zfar |-> 1] }

Scissors ==
  { MakeXYWH(10, 10, 100, 100),     \* inside 800x600, outside 64x32
    MakeXYWH(700, 500, 200, 200),   \* exceeds 800x600 on the right and bottom
    MakeXYWH(-1, 0, 10, 10),        \* starts left of the target
    MakeXYWH(0, 0, 64, 32) }        \* inside both targets

\* A list of n views, all equal to view.
Uniform(n, view) == [i \in 1..n |-> view]

\* The list vbs with the entry at position k replaced by an empty view.
WithEmptyAt(vbs, k) == [i \in 1..Len(vbs) |-> IF i = k THEN EmptyView ELSE vbs[i]]

\* The std::vector<BufferView> arguments of SetVertexBuffer: the empty list,
\* lists within the maximum, a list of exactly the maximum, a list one over
\* it, and lists holding an empty view first or last.
VertexBufferLists ==
  { Uniform(0, "buf1"),
    Uniform(2, "buf1"),
    Uniform(2, "buf2"),
    Uniform(kMaxVertexBuffers, "buf2"),
    Uniform(kMaxVertexBuffers + 1, "buf2"),
    WithEmptyAt(Uniform(2, "buf2"), 1),
    WithEmptyAt(Uniform(2, "buf2"), 2),
    WithEmptyAt(Uniform(kMaxVertexBuffers, "buf2"), kMaxVertexBuffers) }

\* The VertexBuffer arguments of the combined SetVertexBuffer: a valid or an
\* empty vertex buffer, with an index state that passes validation (16-bit
\* with a buffer, none without) or fails it (16-bit without a buffer, unknown).
VertexBuffers ==
  { [vertex_buffer |-> v, index_buffer |-> ix[1], index_type |-> ix[2],
     vertex_count |-> 6] :
      v \in {EmptyView, "buf1"},
      ix \in {<<"buf2", "k16bit">>, <<EmptyView, "kNone">>,
              <<EmptyView, "k16bit">>, <<"buf2", "kUnknown">>} }

\* The (buffer, type) arguments of SetIndexBuffer.
IndexBufferViews == {EmptyView, "buf1"}

ShaderStages == {"kVertex", "kFragment", "kCompute"}
\* The stages each bind operation is called with.
BufferStages == {"kVertex", "kCompute"}
TextureStages == {"kFragment", "kCompute"}
Slots == {0}

\* The Commands handed to AddCommand directly: every combination of pipeline,
\* counts and scissor (none, or one that lies inside the larger target only),
\* one whose scissor lies outside both targets, two with an incoherent index
\* state and one with more vertex buffers than the maximum.
CommandInputs ==
  { [DefaultCommand EXCEPT !.pipeline = p,
                           !.element_count = n[1],
                           !.instance_count = n[2],
                           !.scissor = s] :
      p \in Pipelines,
      n \in {<<3, 1>>, <<0, 1>>, <<3, 0>>},
      s \in {NullOpt, Some(MakeXYWH(10, 10, 100, 100))} }
  \cup
  { [DefaultCommand EXCEPT !.pipeline = "pipeline",
                           !.element_count = 3,
                           !.scissor = Some(MakeXYWH(700, 500, 200, 200))] }
  \cup
  { [DefaultCommand EXCEPT !.pipeline = "pipeline",
                           !.element_count = 3,
                           !.index_buffer = ix[1],
                           !.index_type = ix[2]] :
      ix \in {<<EmptyView, "k16bit">>, <<"buf1", "kUnknown">>} }
  \cup
  { [DefaultCommand EXCEPT !.pipeline = "pipeline",
                           !.element_count = 3,
                           !.vertex_buffer_count = kMaxVertexBuffers + 1] }

-----------------------------------------------------------------------------
(* Return values *)

\* The return of a void function.
Void == [type |-> "void"]

\* A bool return value.
Bool(b) == [type |-> "bool", value |-> b]

\* The value an accessor returns.
Returned(v) == [type |-> "value", value |-> v]

\* One invocation of a backend hook: which hook, what it was handed and what
\* it returned.
Hook(hook, arg, result) == [hook |-> hook, arg |-> arg, result |-> result]

\* fml::Status() and the status Draw builds for a refused command.
OkStatus == [type |-> "fml::Status", code |-> "kOk", message |-> ""]
InvalidArgumentStatus ==
  [type |-> "fml::Status", code |-> "kInvalidArgument",
   message |-> "Failed to encode command"]

-----------------------------------------------------------------------------
(* The methods, as functions of the state they read.  Each yields the      *)
(* return value and the fields it leaves behind.                           *)

\* ValidateVertexBuffers without the check of the count against the maximum.
ValidateVertexBuffersNoLimit(vertex_buffers, vertex_buffer_count) ==
  \A i \in 0..(vertex_buffer_count - 1) : BufferViewValid(vertex_buffers[i + 1])

\* ValidateVertexBuffers comparing the count against one more than the
\* maximum.
ValidateVertexBuffersOffByOne(vertex_buffers, vertex_buffer_count) ==
  IF vertex_buffer_count > kMaxVertexBuffers + 1
    THEN FALSE
    ELSE \A i \in 0..(vertex_buffer_count - 1) :
           BufferViewValid(vertex_buffers[i + 1])

\* RenderPass::ValidateVertexBuffers
ValidateVertexBuffers(vertex_buffers, vertex_buffer_count) ==
  IF vertex_buffer_count > kMaxVertexBuffers
    THEN FALSE
    ELSE \A i \in 0..(vertex_buffer_count - 1) :
           BufferViewValid(vertex_buffers[i + 1])

\* ValidateIndexBuffer testing the buffer before the type, so that kNone
\* without a buffer is refused.
ValidateIndexBufferBufferFirst(index_buffer, index_type) ==
  IF ~BufferViewValid(index_buffer)
    THEN FALSE
    ELSE index_type # "kUnknown"

\* RenderPass::ValidateIndexBuffer
ValidateIndexBuffer(index_buffer, index_type) ==
  IF index_type = "kUnknown"
    THEN FALSE
    ELSE IF index_type # "kNone" /\ ~BufferViewValid(index_buffer)
      THEN FALSE
      ELSE TRUE

\* AddCommand without the IsValid check.
AddCommandSkipsValidity(cmds, command) ==
  IF /\ HasValue(command.scissor)
     /\ ~Contains(MakeSize(render_target_.size), Value(command.scissor))
    THEN [ret |-> FALSE, commands |-> cmds]
    ELSE IF command.element_count = 0 \/ command.instance_count = 0
      THEN [ret |-> TRUE, commands |-> cmds]
      ELSE [ret |-> TRUE, commands |-> Append(cmds, command)]

\* AddCommand without the scissor check.
AddCommandSkipsScissor(cmds, command) ==
  IF ~IsValid(command)
    THEN [ret |-> FALSE, commands |-> cmds]
    ELSE IF command.element_count = 0 \/ command.instance_count = 0
      THEN [ret |-> TRUE, commands |-> cmds]
      ELSE [ret |-> TRUE, commands |-> Append(cmds, command)]

\* AddCommand recording a command that draws nothing.
AddCommandRecordsNoOp(cmds, command) ==
  IF ~IsValid(command)
    THEN [ret |-> FALSE, commands |-> cmds]
    ELSE IF /\ HasValue(command.scissor)
            /\ ~Contains(MakeSize(render_target_.size), Value(command.scissor))
      THEN [ret |-> FALSE, commands |-> cmds]
      ELSE [ret |-> TRUE, commands |-> Append(cmds, command)]

\* AddCommand putting the command at the front of the sequence.
AddCommandPrepends(cmds, command) ==
  IF ~IsValid(command)
    THEN [ret |-> FALSE, commands |-> cmds]
    ELSE IF /\ HasValue(command.scissor)
            /\ ~Contains(MakeSize(render_target_.size), Value(command.scissor))
      THEN [ret |-> FALSE, commands |-> cmds]
      ELSE IF command.element_count = 0 \/ command.instance_count = 0
        THEN [ret |-> TRUE, commands |-> cmds]
        ELSE [ret |-> TRUE, commands |-> << command >> \o cmds]

\* AddCommand testing for a command that draws nothing before anything else.
AddCommandNoOpFirst(cmds, command) ==
  IF command.element_count = 0 \/ command.instance_count = 0
    THEN [ret |-> TRUE, commands |-> cmds]
    ELSE IF ~IsValid(command)
      THEN [ret |-> FALSE, commands |-> cmds]
      ELSE IF /\ HasValue(command.scissor)
              /\ ~Contains(MakeSize(render_target_.size),
                           Value(command.scissor))
        THEN [ret |-> FALSE, commands |-> cmds]
        ELSE [ret |-> TRUE, commands |-> Append(cmds, command)]

\* RenderPass::AddCommand
AddCommandResult(cmds, command) ==
  IF ~IsValid(command)
    THEN [ret |-> FALSE, commands |-> cmds]
    ELSE IF /\ HasValue(command.scissor)
            /\ ~Contains(MakeSize(render_target_.size), Value(command.scissor))
      THEN [ret |-> FALSE, commands |-> cmds]
      ELSE IF command.element_count = 0 \/ command.instance_count = 0
        THEN [ret |-> TRUE, commands |-> cmds]
        ELSE [ret |-> TRUE, commands |-> Append(cmds, command)]

\* RenderPass::SetVertexBuffer(BufferView[], size_t)
SetVertexBufferArray(p, vertex_buffers, vertex_buffer_count) ==
  IF ~ValidateVertexBuffers(vertex_buffers, vertex_buffer_count)
    THEN [ret |-> FALSE, pending |-> p]
    ELSE [ret |-> TRUE,
          pending |->
            [p EXCEPT !.vertex_buffer_count = vertex_buffer_count,
                      !.vertex_buffers =
                         [i \in 0..(kMaxVertexBuffers - 1) |->
                            IF i < vertex_buffer_count
                              THEN vertex_buffers[i + 1]
                              ELSE p.vertex_buffers[i]]]]

\* SetIndexBuffer that stores the arguments before validating them.
SetIndexBufferAssignsFirst(p, index_buffer, index_type) ==
  [ret |-> ValidateIndexBuffer(index_buffer, index_type),
   pending |-> [p EXCEPT !.index_buffer = index_buffer,
                         !.index_type = index_type]]

\* RenderPass::SetIndexBuffer
SetIndexBufferResult(p, index_buffer, index_type) ==
  IF ~ValidateIndexBuffer(index_buffer, index_type)
    THEN [ret |-> FALSE, pending |-> p]
    ELSE [ret |-> TRUE,
          pending |-> [p EXCEPT !.index_buffer = index_buffer,
                                !.index_type = index_type]]

\* RenderPass::SetElementCount
SetElementCountResult(p, count) == [p EXCEPT !.element_count = count]

\* The combined SetVertexBuffer without the early return after a failed
\* vertex-buffer assignment.
SetVertexBufferCombinedNoEarlyReturn(p, buffer) ==
  LET vb == SetVertexBufferArray(p, << buffer.vertex_buffer >>, 1)
      ib == SetIndexBufferResult(vb.pending, buffer.index_buffer,
                                 buffer.index_type)
  IN  IF ~ib.ret
        THEN [ret |-> FALSE, pending |-> ib.pending]
        ELSE [ret |-> vb.ret,
              pending |-> SetElementCountResult(ib.pending,
                                                buffer.vertex_count)]

\* RenderPass::SetVertexBuffer(VertexBuffer)
SetVertexBufferCombined(p, buffer) ==
  LET vb == SetVertexBufferArray(p, << buffer.vertex_buffer >>, 1)
  IN  IF ~vb.ret
        THEN [ret |-> FALSE, pending |-> vb.pending]
        ELSE LET ib == SetIndexBufferResult(vb.pending, buffer.index_buffer,
                                            buffer.index_type)
             IN  IF ~ib.ret
                   THEN [ret |-> FALSE, pending |-> ib.pending]
                   ELSE [ret |-> TRUE,
                         pending |-> SetElementCountResult(ib.pending,
                                                           buffer.vertex_count)]

\* Draw resetting the pending command only after a successful AddCommand.
DrawKeepsRejected(p, cmds) ==
  LET result == AddCommandResult(cmds, p)
  IN  [ret |-> IF result.ret THEN OkStatus ELSE InvalidArgumentStatus,
       pending |-> IF result.ret THEN DefaultCommand ELSE p,
       commands |-> result.commands]

\* Draw reporting success only when a command was recorded.
DrawFailsOnNoOp(p, cmds) ==
  LET result == AddCommandResult(cmds, p)
  IN  [ret |-> IF result.commands # cmds THEN OkStatus
                                         ELSE InvalidArgumentStatus,
       pending |-> DefaultCommand,
       commands |-> result.commands]

\* Draw appending the pending command itself instead of handing it to
\* AddCommand.
DrawSkipsAddCommand(p, cmds) ==
  [ret |-> OkStatus, pending |-> DefaultCommand, commands |-> Append(cmds, p)]

\* RenderPass::Draw
DrawResult(p, cmds) ==
  LET result == AddCommandResult(cmds, p)
  IN  [ret |-> IF result.ret THEN OkStatus ELSE InvalidArgumentStatus,
       pending |-> DefaultCommand,
       commands |-> result.commands]

\* Command::BindResource / Command::BindDynamicResource: the binding replaces
\* whatever was bound to the same slot of the same stage; a stage with no
\* binding table is refused and nothing is bound.
BindResult(p, stage, slot, resource, dynamic) ==
  IF stage \notin {"kVertex", "kFragment"}
    THEN [ret |-> FALSE, pending |-> p]
    ELSE [ret |-> TRUE,
          pending |->
            [p EXCEPT !.bindings =
               { b \in p.bindings : ~(b.stage = stage /\ b.slot = slot) }
               \cup { [stage |-> stage, slot |-> slot,
                       resource |-> resource, dynamic |-> dynamic] }]]

-----------------------------------------------------------------------------
(* The state machine *)

Call(op, arg, ret, hooks) ==
  [op |-> op, arg |-> arg, ret |-> ret, hooks |-> hooks]

\* RenderPass::RenderPass
Init ==
  /\ IMPELLER_DEBUG \in BOOLEAN
  /\ render_target_ \in RenderTargets
  /\ sample_count_ = render_target_.sample_count
  /\ pixel_format_ = render_target_.pixel_format
  /\ has_depth_attachment_ = render_target_.depth
  /\ has_stencil_attachment_ = render_target_.stencil
  /\ render_target_size_ = render_target_.size
  /\ orthographic_ = MakeOrthographic(render_target_size_)
  /\ commands_ = << >>
  /\ pending_ = DefaultCommand
  /\ last_call = Call("RenderPass", render_target_, Void, << >>)
  /\ calls = 0

\* A run makes at most MaxCalls calls.
MayCall == calls < MaxCalls

\* Every call is recorded and leaves the snapshot alone.
Step(call, pending, commands) ==
  /\ calls' = calls + 1
  /\ last_call' = call
  /\ pending_' = pending
  /\ commands_' = commands
  /\ UNCHANGED frozen

\* RenderPass::GetSampleCount
GetSampleCount ==
  /\ MayCall
  /\ Step(Call("GetSampleCount", "none", Returned(sample_count_), << >>),
          pending_, commands_)

\* GetRenderTargetPixelFormat that returns the neighbouring field.
GetRenderTargetPixelFormatReturnsSampleCount ==
  /\ MayCall
  /\ Step(Call("GetRenderTargetPixelFormat", "none", Returned(sample_count_),
               << >>),
          pending_, commands_)

\* RenderPass::GetRenderTargetPixelFormat
GetRenderTargetPixelFormat ==
  /\ MayCall
  /\ Step(Call("GetRenderTargetPixelFormat", "none", Returned(pixel_format_),
               << >>),
          pending_, commands_)

\* RenderPass::HasDepthAttachment
HasDepthAttachment ==
  /\ MayCall
  /\ Step(Call("HasDepthAttachment", "none", Returned(has_depth_attachment_),
               << >>),
          pending_, commands_)

\* RenderPass::HasStencilAttachment
HasStencilAttachment ==
  /\ MayCall
  /\ Step(Call("HasStencilAttachment", "none",
               Returned(has_stencil_attachment_), << >>),
          pending_, commands_)

\* RenderPass::GetRenderTarget
GetRenderTarget ==
  /\ MayCall
  /\ Step(Call("GetRenderTarget", "none", Returned(render_target_), << >>),
          pending_, commands_)

\* RenderPass::GetRenderTargetSize
GetRenderTargetSize ==
  /\ MayCall
  /\ Step(Call("GetRenderTargetSize", "none", Returned(render_target_size_),
               << >>),
          pending_, commands_)

\* RenderPass::GetOrthographicTransform
GetOrthographicTransform ==
  /\ MayCall
  /\ Step(Call("GetOrthographicTransform", "none", Returned(orthographic_),
               << >>),
          pending_, commands_)

\* SetLabel without the empty-label check: every label reaches the hook.
SetLabelForwardsEmpty ==
  /\ MayCall
  /\ \E label \in PassLabels :
       Step(Call("SetLabel", label, Void,
                 << Hook("OnSetLabel", label, Void) >>),
            pending_, commands_)

\* RenderPass::SetLabel
SetLabel ==
  /\ MayCall
  /\ \E label \in PassLabels :
       Step(Call("SetLabel", label, Void,
                 IF label = "" THEN << >>
                               ELSE << Hook("OnSetLabel", label, Void) >>),
            pending_, commands_)

\* RenderPass::AddCommand
AddCommand ==
  /\ MayCall
  /\ \E command \in CommandInputs :
       LET r == AddCommandResult(commands_, command)
       IN  Step(Call("AddCommand", command, Bool(r.ret), << >>), pending_, r.commands)

\* EncodeCommands that consumes the finalized sequence once the backend has
\* seen it.
EncodeCommandsConsumes ==
  /\ MayCall
  /\ \E encoded \in BOOLEAN :
       Step(Call("EncodeCommands", "none", Bool(encoded),
                 << Hook("OnEncodeCommands", commands_, Bool(encoded)) >>),
            pending_, << >>)

\* RenderPass::EncodeCommands: OnEncodeCommands, the backend's hook, reads the
\* finalized sequence and returns what the backend decides.
EncodeCommands ==
  /\ MayCall
  /\ \E encoded \in BOOLEAN :
       Step(Call("EncodeCommands", "none", Bool(encoded),
                 << Hook("OnEncodeCommands", commands_, Bool(encoded)) >>),
            pending_, commands_)

\* RenderPass::SetPipeline
SetPipeline ==
  /\ MayCall
  /\ \E pipeline \in Pipelines :
       Step(Call("SetPipeline", pipeline, Void, << >>),
            [pending_ EXCEPT !.pipeline = pipeline], commands_)

\* RenderPass::SetCommandLabel
SetCommandLabel ==
  /\ MayCall
  /\ \E label \in CommandLabels :
       Step(Call("SetCommandLabel", label, Void, << >>),
            IF IMPELLER_DEBUG THEN [pending_ EXCEPT !.label = label]
                              ELSE pending_,
            commands_)

\* RenderPass::SetStencilReference
SetStencilReference ==
  /\ MayCall
  /\ \E value \in StencilReferences :
       Step(Call("SetStencilReference", value, Void, << >>),
            [pending_ EXCEPT !.stencil_reference = value], commands_)

\* RenderPass::SetBaseVertex
SetBaseVertex ==
  /\ MayCall
  /\ \E value \in BaseVertices :
       Step(Call("SetBaseVertex", value, Void, << >>),
            [pending_ EXCEPT !.base_vertex = value], commands_)

\* RenderPass::SetViewport
SetViewport ==
  /\ MayCall
  /\ \E viewport \in Viewports :
       Step(Call("SetViewport", viewport, Void, << >>),
            [pending_ EXCEPT !.viewport = Some(viewport)], commands_)

\* SetScissor that validates eagerly: a scissor outside the render target is
\* dropped instead of stored.
SetScissorValidates ==
  /\ MayCall
  /\ \E scissor \in Scissors :
       Step(Call("SetScissor", scissor, Void, << >>),
            IF Contains(MakeSize(render_target_size_), scissor)
              THEN [pending_ EXCEPT !.scissor = Some(scissor)]
              ELSE pending_,
            commands_)

\* RenderPass::SetScissor
SetScissor ==
  /\ MayCall
  /\ \E scissor \in Scissors :
       Step(Call("SetScissor", scissor, Void, << >>),
            [pending_ EXCEPT !.scissor = Some(scissor)], commands_)

\* RenderPass::SetElementCount
SetElementCount ==
  /\ MayCall
  /\ \E count \in ElementCounts :
       Step(Call("SetElementCount", count, Void, << >>),
            SetElementCountResult(pending_, count), commands_)

\* RenderPass::SetInstanceCount
SetInstanceCount ==
  /\ MayCall
  /\ \E count \in InstanceCounts :
       Step(Call("SetInstanceCount", count, Void, << >>),
            [pending_ EXCEPT !.instance_count = count], commands_)

\* RenderPass::SetVertexBuffer(VertexBuffer)
SetVertexBuffer ==
  /\ MayCall
  /\ \E buffer \in VertexBuffers :
       LET r == SetVertexBufferCombined(pending_, buffer)
       IN  Step(Call("SetVertexBuffer(VertexBuffer)", buffer, Bool(r.ret), << >>),
                r.pending, commands_)

\* RenderPass::SetVertexBuffer(BufferView)
SetVertexBufferView ==
  /\ MayCall
  /\ \E vertex_buffer \in {EmptyView, "buf2"} :
       LET r == SetVertexBufferArray(pending_, << vertex_buffer >>, 1)
       IN  Step(Call("SetVertexBuffer(BufferView)", vertex_buffer, Bool(r.ret), << >>),
                r.pending, commands_)

\* RenderPass::SetVertexBuffer(std::vector<BufferView>), which passes the
\* vector's data and size to SetVertexBuffer(BufferView[], size_t).
SetVertexBufferVector ==
  /\ MayCall
  /\ \E vertex_buffers \in VertexBufferLists :
       LET r == SetVertexBufferArray(pending_, vertex_buffers, Len(vertex_buffers))
       IN  Step(Call("SetVertexBuffer(vector)", vertex_buffers, Bool(r.ret), << >>),
                r.pending, commands_)

\* RenderPass::SetIndexBuffer
SetIndexBuffer ==
  /\ MayCall
  /\ \E index_buffer \in IndexBufferViews, index_type \in IndexTypes :
       LET r == SetIndexBufferResult(pending_, index_buffer, index_type)
       IN  Step(Call("SetIndexBuffer",
                     [index_buffer |-> index_buffer, index_type |-> index_type],
                     Bool(r.ret), << >>),
                r.pending, commands_)

\* RenderPass::Draw; the call's argument is the pending command it moves into
\* AddCommand.
Draw ==
  /\ MayCall
  /\ LET r == DrawResult(pending_, commands_)
     IN  Step(Call("Draw", pending_, r.ret, << >>), r.pending, r.commands)

\* BindResource that binds onto the most recently finalized command when there
\* is one, instead of onto the pending command.
BindResourceBufferOnRecorded ==
  /\ MayCall
  /\ \E stage \in BufferStages, slot \in Slots :
       LET resource == [kind |-> "buffer", view |-> "buf1"]
           target == IF commands_ = << >> THEN pending_
                                          ELSE commands_[Len(commands_)]
           r == BindResult(target, stage, slot, resource, FALSE)
       IN  Step(Call("BindResource(BufferView)",
                     [stage |-> stage, slot |-> slot, resource |-> resource],
                     Bool(r.ret), << >>),
                IF commands_ = << >> THEN r.pending ELSE pending_,
                IF commands_ = << >>
                  THEN commands_
                  ELSE [commands_ EXCEPT ![Len(commands_)] = r.pending])

\* RenderPass::BindResource(..., BufferView)
BindResourceBuffer ==
  /\ MayCall
  /\ \E stage \in BufferStages, slot \in Slots :
       LET resource == [kind |-> "buffer", view |-> "buf1"]
           r == BindResult(pending_, stage, slot, resource, FALSE)
       IN  Step(Call("BindResource(BufferView)",
                     [stage |-> stage, slot |-> slot, resource |-> resource],
                     Bool(r.ret), << >>),
                r.pending, commands_)

\* RenderPass::BindResource(..., texture, sampler)
BindResourceTexture ==
  /\ MayCall
  /\ \E stage \in TextureStages, slot \in Slots :
       LET resource == [kind |-> "texture", view |-> "tex"]
           r == BindResult(pending_, stage, slot, resource, FALSE)
       IN  Step(Call("BindResource(Texture)",
                     [stage |-> stage, slot |-> slot, resource |-> resource],
                     Bool(r.ret), << >>),
                r.pending, commands_)

\* RenderPass::BindDynamicResource(..., BufferView)
BindDynamicResourceBuffer ==
  /\ MayCall
  /\ \E stage \in BufferStages, slot \in Slots :
       LET resource == [kind |-> "buffer", view |-> "buf1"]
           r == BindResult(pending_, stage, slot, resource, TRUE)
       IN  Step(Call("BindDynamicResource(BufferView)",
                     [stage |-> stage, slot |-> slot, resource |-> resource],
                     Bool(r.ret), << >>),
                r.pending, commands_)

\* RenderPass::BindDynamicResource(..., texture, sampler)
BindDynamicResourceTexture ==
  /\ MayCall
  /\ \E stage \in TextureStages, slot \in Slots :
       LET resource == [kind |-> "texture", view |-> "tex"]
           r == BindResult(pending_, stage, slot, resource, TRUE)
       IN  Step(Call("BindDynamicResource(Texture)",
                     [stage |-> stage, slot |-> slot, resource |-> resource],
                     Bool(r.ret), << >>),
                r.pending, commands_)

Next ==
  \/ GetSampleCount
  \/ GetRenderTargetPixelFormat
  \/ HasDepthAttachment
  \/ HasStencilAttachment
  \/ GetRenderTarget
  \/ GetRenderTargetSize
  \/ GetOrthographicTransform
  \/ SetLabel
  \/ AddCommand
  \/ EncodeCommands
  \/ SetPipeline
  \/ SetCommandLabel
  \/ SetStencilReference
  \/ SetBaseVertex
  \/ SetViewport
  \/ SetScissor
  \/ SetElementCount
  \/ SetInstanceCount
  \/ SetVertexBuffer
  \/ SetVertexBufferView
  \/ SetVertexBufferVector
  \/ SetIndexBuffer
  \/ Draw
  \/ BindResourceBuffer
  \/ BindResourceTexture
  \/ BindDynamicResourceBuffer
  \/ BindDynamicResourceTexture

Spec == Init /\ [][Next]_vars

-----------------------------------------------------------------------------
(* Properties *)

\* The call is a call of AddCommand: a direct one, or the one Draw makes with
\* the pending command.
IsAddCommand(call) == call.op \in {"AddCommand", "Draw"}

\* AddCommand returned true to the call (Draw turns true into an ok status).
Accepted(call) ==
  IF call.op = "Draw" THEN call.ret = OkStatus ELSE call.ret = Bool(TRUE)

\* The rectangle r lies within [0,0]..size.
InBounds(r, size) ==
  /\ 0 <= r.x
  /\ 0 <= r.y
  /\ r.x + r.w <= size.width
  /\ r.y + r.h <= size.height

\* s is t, or t with elements added at the end.
IsPrefix(s, t) == Len(s) <= Len(t) /\ SubSeq(t, 1, Len(s)) = s

\* C1: AddCommand called with a command for which IsValid() is false, a
\* command with a null pipeline in particular, returns failure and leaves the
\* finalized sequence as it was.
C1_InvalidCommandRejected ==
  [][ (/\ IsAddCommand(last_call')
       /\ \/ ~IsValid(last_call'.arg)
          \/ last_call'.arg.pipeline = NullPipeline)
      => /\ ~Accepted(last_call')
         /\ commands_' = commands_ ]_vars

\* C1 happens: an invalid command that would draw something was handed to
\* AddCommand of a pass that had recorded a command, and was refused.
C1_Witness ==
  /\ last_call.op = "AddCommand"
  /\ ~IsValid(last_call.arg)
  /\ last_call.arg.element_count > 0
  /\ last_call.arg.instance_count > 0
  /\ last_call.ret = Bool(FALSE)
  /\ Len(commands_) = 1

\* C2: for a valid command carrying a scissor R, AddCommand returns success
\* if and only if R lies within [0,0]..S, S the size of the render target; when
\* it does not, the finalized sequence is unchanged.
C2_ScissorDecides ==
  [][ (/\ IsAddCommand(last_call')
       /\ IsValid(last_call'.arg)
       /\ HasValue(last_call'.arg.scissor))
      => LET inside == InBounds(Value(last_call'.arg.scissor),
                                render_target_size_)
         IN  /\ Accepted(last_call') <=> inside
             /\ ~inside => commands_' = commands_ ]_vars

\* C2 happens: the scissor (700, 500, 200, 200) on the 800x600 target, on a
\* command that is valid and draws something, was refused.
C2_Witness ==
  /\ last_call.op = "AddCommand"
  /\ IsValid(last_call.arg)
  /\ last_call.arg.element_count > 0
  /\ last_call.arg.scissor = Some(MakeXYWH(700, 500, 200, 200))
  /\ render_target_size_ = MakeISize(800, 600)
  /\ last_call.ret = Bool(FALSE)

\* C3: for a valid command whose scissor, if any, is in bounds and whose
\* element count or instance count is 0, AddCommand returns success and the
\* finalized sequence is unchanged.
C3_NoOpNotRecorded ==
  [][ (/\ IsAddCommand(last_call')
       /\ IsValid(last_call'.arg)
       /\ HasValue(last_call'.arg.scissor) =>
            InBounds(Value(last_call'.arg.scissor), render_target_size_)
       /\ \/ last_call'.arg.element_count = 0
          \/ last_call'.arg.instance_count = 0)
      => /\ Accepted(last_call')
         /\ commands_' = commands_ ]_vars

\* C3 happens: a valid command with instance count 0 and a scissor in bounds
\* was accepted by a pass holding one command, which still holds just that one.
C3_Witness ==
  /\ last_call.op = "AddCommand"
  /\ IsValid(last_call.arg)
  /\ last_call.arg.instance_count = 0
  /\ last_call.arg.element_count > 0
  /\ HasValue(last_call.arg.scissor)
  /\ last_call.ret = Bool(TRUE)
  /\ Len(commands_) = 1

\* C4: after every call of Draw, whatever it returned, the pending command
\* equals a default-constructed Command.
C4_DrawResetsPending ==
  last_call.op = "Draw" => pending_ = DefaultCommand

\* C4 happens: Draw refused a pending command that carried a scissor and
\* vertex buffers, and the pending command is the default one again.
C4_Witness ==
  /\ last_call.op = "Draw"
  /\ last_call.ret = InvalidArgumentStatus
  /\ HasValue(last_call.arg.scissor)
  /\ last_call.arg.vertex_buffer_count > 0
  /\ pending_ = DefaultCommand

\* The fields the combined SetVertexBuffer(VertexBuffer) may assign.
VertexInputState(command) ==
  << command.vertex_buffers, command.vertex_buffer_count,
     command.index_buffer, command.index_type, command.element_count >>

\* C5: whenever the combined SetVertexBuffer(VertexBuffer) returns failure,
\* because the vertex buffer is invalid or because the packaged index buffer
\* and index type fail validation, the pending command's vertex buffers,
\* vertex-buffer count, index buffer, index type and element count are what
\* they were before the call.
C5_CombinedAllOrNothing ==
  [][ (/\ last_call'.op = "SetVertexBuffer(VertexBuffer)"
       /\ last_call'.ret = Bool(FALSE))
      => VertexInputState(pending_') = VertexInputState(pending_) ]_vars

\* C6: Draw returns an ok status exactly when AddCommand accepts the pending
\* command (it is valid and its scissor, if any, is in bounds), the commands
\* that draw nothing included; otherwise it returns the invalid-argument
\* status with its fixed message and the finalized sequence is unchanged.
C6_DrawStatus ==
  [][ last_call'.op = "Draw"
      => LET accepts ==
               /\ IsValid(pending_)
               /\ HasValue(pending_.scissor) =>
                    InBounds(Value(pending_.scissor), render_target_size_)
         IN  /\ accepts => last_call'.ret = [type |-> "fml::Status", code |-> "kOk",
                                         message |-> ""]
             /\ ~accepts =>
                  /\ last_call'.ret =
                       [type |-> "fml::Status",
                        code |-> "kInvalidArgument",
                        message |-> "Failed to encode command"]
                  /\ commands_' = commands_ ]_vars

\* C6 happens: Draw of a valid pending command with element count 0 returned
\* ok and recorded nothing.
C6_Witness ==
  /\ last_call.op = "Draw"
  /\ IsValid(last_call.arg)
  /\ last_call.arg.element_count = 0
  /\ last_call.ret = OkStatus
  /\ commands_ = << >>

\* The pending command after SetElementCount(3), SetInstanceCount(1) and
\* SetPipeline(a valid pipeline) on a fresh pass.
ScenarioCommand ==
  [DefaultCommand EXCEPT !.element_count = 3, !.instance_count = 1,
                         !.pipeline = "pipeline"]

\* C7: the finalized sequence only grows at its end: every step leaves the
\* earlier sequence a prefix of the later one, and an AddCommand (direct, or
\* made by Draw with the pending command) that accepts a command with
\* non-zero element and instance counts appends exactly that command; Draw
\* after SetElementCount(3), SetInstanceCount(1), SetPipeline(valid) on a
\* fresh 800x600 pass gives ok and a sequence of length 1.
C7_AppendOnly ==
  [][ /\ IsPrefix(commands_, commands_')
      /\ (/\ IsAddCommand(last_call')
          /\ Accepted(last_call')
          /\ last_call'.arg.element_count > 0
          /\ last_call'.arg.instance_count > 0)
         => commands_' =
              Append(commands_,
                     IF last_call'.op = "Draw" THEN pending_
                                               ELSE last_call'.arg)
      /\ (/\ last_call'.op = "Draw"
          /\ pending_ = ScenarioCommand
          /\ commands_ = << >>
          /\ render_target_size_ = MakeISize(800, 600))
         => /\ last_call'.ret = OkStatus
            /\ commands_' = << ScenarioCommand >> ]_vars

\* C7 happens: a second command was appended behind a different first one.
C7_Witness ==
  /\ IsAddCommand(last_call)
  /\ Accepted(last_call)
  /\ Len(commands_) = 2
  /\ commands_[1] # commands_[2]
  /\ commands_[2] = last_call.arg

\* The vertex buffers a SetVertexBuffer call supplies, as a list.
SuppliedVertexBuffers(call) ==
  IF call.op = "SetVertexBuffer(vector)" THEN call.arg
  ELSE IF call.op = "SetVertexBuffer(BufferView)" THEN << call.arg >>
  ELSE << call.arg.vertex_buffer >>

\* C8: SetVertexBuffer called with more than kMaxVertexBuffers buffers, or
\* with a buffer that is empty, returns failure and leaves the pending
\* command's vertex-buffer count and vertex buffers unchanged.
C8_VertexBuffersRejected ==
  [][ (/\ last_call'.op \in {"SetVertexBuffer(vector)",
                             "SetVertexBuffer(BufferView)",
                             "SetVertexBuffer(VertexBuffer)"}
       /\ LET vbs == SuppliedVertexBuffers(last_call')
          IN  \/ Len(vbs) > kMaxVertexBuffers
              \/ \E k \in 1..Len(vbs) : vbs[k] = EmptyView)
      => /\ last_call'.ret = Bool(FALSE)
         /\ pending_'.vertex_buffer_count = pending_.vertex_buffer_count
         /\ pending_'.vertex_buffers = pending_.vertex_buffers ]_vars

\* C8 happens: with two buffers bound, a call with one buffer more than the
\* maximum failed, and the two bound buffers are still there.
C8_Witness ==
  /\ last_call.op = "SetVertexBuffer(vector)"
  /\ Len(last_call.arg) = kMaxVertexBuffers + 1
  /\ last_call.ret = Bool(FALSE)
  /\ pending_.vertex_buffer_count = 2
  /\ pending_.vertex_buffers[0] = "buf1"
  /\ pending_.vertex_buffers[1] = "buf1"

\* C9: ValidateIndexBuffer fails for the unknown type whatever the buffer,
\* succeeds for the type none whatever the buffer, and for the 16-bit and
\* 32-bit types succeeds if and only if the buffer is not empty.  (SetIndexBuffer
\* returns what ValidateIndexBuffer returns.)
C9_IndexBufferValidation ==
  last_call.op = "SetIndexBuffer"
  => LET buffer == last_call.arg.index_buffer
         type == last_call.arg.index_type
     IN  /\ type = "kUnknown" => last_call.ret = Bool(FALSE)
         /\ type = "kNone" => last_call.ret = Bool(TRUE)
         /\ type \in {"k16bit", "k32bit"} =>
              (last_call.ret = Bool(TRUE) <=> buffer # EmptyView)

\* C9 happens: the type none was accepted together with a non-empty buffer.
C9_Witness ==
  /\ last_call.op = "SetIndexBuffer"
  /\ last_call.arg.index_type = "kNone"
  /\ last_call.arg.index_buffer # EmptyView
  /\ last_call.ret = Bool(TRUE)

\* C10: when the vertex-buffer assignment of the combined
\* SetVertexBuffer(VertexBuffer) fails, failure is returned and the pending
\* index buffer, index type and element count are unchanged.
C10_VertexFailureStopsHelper ==
  [][ (/\ last_call'.op = "SetVertexBuffer(VertexBuffer)"
       /\ last_call'.arg.vertex_buffer = EmptyView)
      => /\ last_call'.ret = Bool(FALSE)
         /\ pending_'.index_buffer = pending_.index_buffer
         /\ pending_'.index_type = pending_.index_type
         /\ pending_'.element_count = pending_.element_count ]_vars

\* C10 happens: the helper was given an empty vertex buffer with an index
\* buffer that passes validation, failed, and the index state and element
\* count set before are still pending.
C10_Witness ==
  /\ last_call.op = "SetVertexBuffer(VertexBuffer)"
  /\ last_call.arg.vertex_buffer = EmptyView
  /\ last_call.arg.index_buffer = "buf2"
  /\ last_call.arg.index_type = "k16bit"
  /\ last_call.ret = Bool(FALSE)
  /\ pending_.index_buffer = "buf1"
  /\ pending_.index_type = "k32bit"
  /\ pending_.element_count = 3

\* C11: SetIndexBuffer is all-or-nothing.  With arguments that fail the index
\* validation it returns failure and the pending index buffer and index type
\* keep their values; with arguments that pass it returns success and both
\* equal the arguments.  In either case no other pending field and no
\* finalized command changes.
C11_IndexBufferAllOrNothing ==
  [][ last_call'.op = "SetIndexBuffer"
      => LET index_buffer == last_call'.arg.index_buffer
             index_type == last_call'.arg.index_type
             passes == /\ index_type # "kUnknown"
                       /\ (index_type = "kNone" \/ index_buffer # EmptyView)
         IN  /\ last_call'.ret = Bool(passes)
             /\ pending_' = IF passes
                              THEN [pending_ EXCEPT
                                      !.index_buffer = index_buffer,
                                      !.index_type = index_type]
                              ELSE pending_
             /\ commands_' = commands_ ]_vars

\* C11 happens: a SetIndexBuffer with an unknown index type failed after an
\* index buffer, a vertex buffer and a finalized command were in place, and
\* they are all still there.
C11_Witness ==
  /\ last_call.op = "SetIndexBuffer"
  /\ last_call.arg.index_type = "kUnknown"
  /\ last_call.arg.index_buffer = "buf1"
  /\ last_call.ret = Bool(FALSE)
  /\ pending_.index_type = "k16bit"
  /\ pending_.index_buffer = "buf2"
  /\ pending_.vertex_buffer_count = 1
  /\ Len(commands_) = 1

\* The builder mutators of claim C12.
BuilderMutators ==
  {"SetPipeline", "SetCommandLabel", "SetStencilReference", "SetBaseVertex",
   "SetViewport", "SetScissor", "SetElementCount", "SetInstanceCount"}

\* The pending command p after the builder mutator call stored its argument
\* in its one field; labelled says whether SetCommandLabel stores the label.
AfterMutator(p, call, labelled) ==
  CASE call.op = "SetPipeline" -> [p EXCEPT !.pipeline = call.arg]
    [] call.op = "SetCommandLabel" ->
         IF labelled THEN [p EXCEPT !.label = call.arg] ELSE p
    [] call.op = "SetStencilReference" ->
         [p EXCEPT !.stencil_reference = call.arg]
    [] call.op = "SetBaseVertex" -> [p EXCEPT !.base_vertex = call.arg]
    [] call.op = "SetViewport" -> [p EXCEPT !.viewport = Some(call.arg)]
    [] call.op = "SetScissor" -> [p EXCEPT !.scissor = Some(call.arg)]
    [] call.op = "SetElementCount" -> [p EXCEPT !.element_count = call.arg]
    [] call.op = "SetInstanceCount" -> [p EXCEPT !.instance_count = call.arg]
    [] OTHER -> p

\* C12 as stated: every builder mutator stores its argument, whatever it is,
\* in its one field of the pending command, leaves every other pending field
\* and the finalized sequence unchanged, and reports nothing.
C12_MutatorSetsItsField ==
  [][ last_call'.op \in BuilderMutators
      => /\ last_call'.ret = Void
         /\ pending_' = AfterMutator(pending_, last_call', TRUE)
         /\ commands_' = commands_ ]_vars

\* C12, amended: as stated for the seven other mutators; SetCommandLabel
\* stores the label only in a build with IMPELLER_DEBUG and otherwise leaves
\* the whole pending command unchanged.
C12_MutatorSetsItsFieldWhenCompiled ==
  [][ last_call'.op \in BuilderMutators
      => /\ last_call'.ret = Void
         /\ pending_' = AfterMutator(pending_, last_call', IMPELLER_DEBUG)
         /\ commands_' = commands_ ]_vars

\* C12 happens: in a build without IMPELLER_DEBUG, SetCommandLabel left the
\* label empty, after SetScissor had stored a scissor outside the render
\* target and SetPipeline a null pipeline, with nothing finalized.
C12_Witness ==
  /\ ~IMPELLER_DEBUG
  /\ last_call.op = "SetCommandLabel"
  /\ last_call.arg = "draw"
  /\ pending_.label = ""
  /\ HasValue(pending_.scissor)
  /\ ~InBounds(Value(pending_.scissor), render_target_size_)
  /\ pending_.pipeline = NullPipeline
  /\ commands_ = << >>

\* The four bind operations of the ResourceBinder interface.
BindOperations ==
  {"BindResource(BufferView)", "BindResource(Texture)",
   "BindDynamicResource(BufferView)", "BindDynamicResource(Texture)"}

\* C13: the four bind operations act only on the pending command.  After any
\* of them, successful or failed, the finalized sequence has the same length
\* and the same commands as before, and after a failed one the pending
\* command is unchanged too.
C13_BindTouchesOnlyPending ==
  [][ last_call'.op \in BindOperations
      => /\ Len(commands_') = Len(commands_)
         /\ \A i \in 1..Len(commands_) : commands_'[i] = commands_[i]
         /\ last_call'.ret \in {Bool(TRUE), Bool(FALSE)}
         /\ (last_call'.ret = Bool(FALSE) => pending_' = pending_) ]_vars

\* C13 happens: a bind failed while a command was finalized and the pending
\* command already carried a binding, which is still there.
C13_Witness ==
  /\ last_call.op \in BindOperations
  /\ last_call.ret = Bool(FALSE)
  /\ Len(commands_) = 1
  /\ pending_.bindings # {}

\* C14: EncodeCommands invokes the backend encode hook once, the hook sees the
\* finalized commands in recorded order, EncodeCommands returns exactly what
\* the hook returned, and neither the finalized sequence nor the pending
\* command changes; an EncodeCommands that directly follows another presents
\* the same sequence to the hook.
C14_EncodeDelegates ==
  [][ last_call'.op = "EncodeCommands"
      => /\ Len(last_call'.hooks) = 1
         /\ last_call'.hooks[1].hook = "OnEncodeCommands"
         /\ last_call'.hooks[1].arg = commands_
         /\ last_call'.ret = last_call'.hooks[1].result
         /\ commands_' = commands_
         /\ pending_' = pending_
         /\ (last_call.op = "EncodeCommands"
             => last_call'.hooks[1].arg = last_call.hooks[1].arg) ]_vars

\* C14 happens: with two different commands finalized, EncodeCommands
\* reported the backend's failure, and the hook saw the two commands in the
\* order they were recorded.
C14_Witness ==
  /\ last_call.op = "EncodeCommands"
  /\ last_call.ret = Bool(FALSE)
  /\ Len(commands_) = 2
  /\ commands_[1] # commands_[2]
  /\ last_call.hooks[1].arg = commands_

\* The accessors of the render-target snapshot.
Accessors ==
  {"GetSampleCount", "GetRenderTargetPixelFormat", "HasDepthAttachment",
   "HasStencilAttachment", "GetRenderTarget", "GetRenderTargetSize",
   "GetOrthographicTransform"}

\* What the accessor op returns for a pass constructed against target.
Captured(op, target) ==
  CASE op = "GetSampleCount" -> target.sample_count
    [] op = "GetRenderTargetPixelFormat" -> target.pixel_format
    [] op = "HasDepthAttachment" -> target.depth
    [] op = "HasStencilAttachment" -> target.stencil
    [] op = "GetRenderTarget" -> target
    [] op = "GetRenderTargetSize" -> target.size
    [] op = "GetOrthographicTransform" -> MakeOrthographic(target.size)

\* C15: the render-target snapshot is frozen.  No call changes a snapshot
\* field, after every call each field holds what the constructor derived from
\* its render target, every accessor returns that value, and an accessor
\* changes neither the pending command nor the finalized sequence.
C15_SnapshotFrozen ==
  [][ /\ frozen' = frozen
      /\ sample_count_' = render_target_.sample_count
      /\ pixel_format_' = render_target_.pixel_format
      /\ has_depth_attachment_' = render_target_.depth
      /\ has_stencil_attachment_' = render_target_.stencil
      /\ render_target_size_' = render_target_.size
      /\ orthographic_' = MakeOrthographic(render_target_.size)
      /\ last_call'.op \in Accessors
           => /\ last_call'.ret =
                   Returned(Captured(last_call'.op, render_target_))
              /\ pending_' = pending_
              /\ commands_' = commands_ ]_vars

\* C15 happens: after a command was finalized and a 64x32 viewport was set on
\* the pending command, GetRenderTargetSize on a pass constructed against the
\* 800x600 target returned 800x600.
C15_Witness ==
  /\ last_call.op = "GetRenderTargetSize"
  /\ last_call.ret = Returned(MakeISize(800, 600))
  /\ Len(commands_) = 1
  /\ HasValue(pending_.viewport)

\* C16: SetLabel with an empty label does not invoke the backend labeling
\* hook; SetLabel with a non-empty label invokes it exactly once, with that
\* label; in both cases the pending command and the finalized sequence are
\* unchanged.
C16_SetLabelForwardsNonEmpty ==
  [][ last_call'.op = "SetLabel"
      => /\ (last_call'.arg = "" => last_call'.hooks = << >>)
         /\ (last_call'.arg # ""
             => /\ Len(last_call'.hooks) = 1
                /\ last_call'.hooks[1].hook = "OnSetLabel"
                /\ last_call'.hooks[1].arg = last_call'.arg)
         /\ pending_' = pending_
         /\ commands_' = commands_ ]_vars

\* C16 happens: SetLabel with an empty label went by without a hook call,
\* with a command finalized and a pipeline pending.
C16_Witness ==
  /\ last_call.op = "SetLabel"
  /\ last_call.arg = ""
  /\ last_call.hooks = << >>
  /\ Len(commands_) = 1
  /\ pending_.pipeline = "pipeline"

\* C17: AddCommand tests validity, then the scissor, then the counts.  A
\* command with element count 0 or instance count 0 that is also invalid, or
\* that carries a scissor outside the render target, is refused: AddCommand
\* returns false and Draw the invalid-argument status, never success.
C17_FailureBeforeNoOp ==
  (/\ IsAddCommand(last_call)
   /\ (last_call.arg.element_count = 0 \/ last_call.arg.instance_count = 0)
   /\ \/ ~IsValid(last_call.arg)
      \/ /\ HasValue(last_call.arg.scissor)
         /\ ~InBounds(Value(last_call.arg.scissor), render_target_size_))
  => last_call.ret = IF last_call.op = "Draw" THEN InvalidArgumentStatus
                                              ELSE Bool(FALSE)

\* C17 happens: Draw of a pending command with a pipeline, element count 0
\* and a scissor outside the render target reported the invalid-argument
\* status.
C17_Witness ==
  /\ last_call.op = "Draw"
  /\ last_call.arg.pipeline = "pipeline"
  /\ last_call.arg.element_count = 0
  /\ HasValue(last_call.arg.scissor)
  /\ ~InBounds(Value(last_call.arg.scissor), render_target_size_)
  /\ last_call.ret = InvalidArgumentStatus

\* C18: in every reachable state, every command of the finalized sequence is
\* valid (non-null pipeline, coherent index state, at most kMaxVertexBuffers
\* vertex buffers), has element count > 0 and instance count > 0, and its
\* scissor, if it has one, lies inside the render target.
C18_FinalizedCommandsWellFormed ==
  \A i \in 1..Len(commands_) :
    LET command == commands_[i]
    IN  /\ IsValid(command)
        /\ command.pipeline # NullPipeline
        /\ command.vertex_buffer_count <= kMaxVertexBuffers
        /\ (command.index_type = "kNone" \/ command.index_buffer # EmptyView)
        /\ command.index_type # "kUnknown"
        /\ command.element_count > 0
        /\ command.instance_count > 0
        /\ (HasValue(command.scissor)
            => InBounds(Value(command.scissor), render_target_size_))

\* C18 happens: two commands are finalized, the second with a scissor, and
\* the command offered last was refused and is not among them.
C18_Witness ==
  /\ Len(commands_) = 2
  /\ HasValue(commands_[2].scissor)
  /\ IsAddCommand(last_call)
  /\ ~Accepted(last_call)

\* C19: in every reachable state the pending command's vertex-buffer count is
\* at most kMaxVertexBuffers.  After a SetVertexBuffer (any overload) that
\* returned success, the count is the number of buffers supplied, every index
\* the copy loop wrote is below the array's capacity, and the first count
\* entries are the supplied buffers in order; an empty list succeeds and sets
\* the count to 0.
C19_VertexBufferCountBounded ==
  /\ pending_.vertex_buffer_count <= kMaxVertexBuffers
  /\ (/\ last_call.op \in {"SetVertexBuffer(vector)",
                           "SetVertexBuffer(BufferView)",
                           "SetVertexBuffer(VertexBuffer)"}
      /\ last_call.ret = Bool(TRUE))
     => LET supplied == SuppliedVertexBuffers(last_call)
        IN  /\ pending_.vertex_buffer_count = Len(supplied)
            /\ \A i \in 0..(Len(supplied) - 1) :
                 /\ i < kMaxVertexBuffers
                 /\ pending_.vertex_buffers[i] = supplied[i + 1]
  /\ (/\ last_call.op = "SetVertexBuffer(vector)"
      /\ last_call.arg = << >>)
     => /\ last_call.ret = Bool(TRUE)
        /\ pending_.vertex_buffer_count = 0

\* C19 happens: a list of exactly kMaxVertexBuffers buffers was accepted and
\* fills the array up to its last entry.
C19_Witness ==
  /\ last_call.op = "SetVertexBuffer(vector)"
  /\ Len(last_call.arg) = kMaxVertexBuffers
  /\ last_call.ret = Bool(TRUE)
  /\ pending_.vertex_buffer_count = kMaxVertexBuffers
  /\ pending_.vertex_buffers[kMaxVertexBuffers - 1] = "buf2"

====
